---------------------------- MODULE Spec2Model ----------------------------
(***************************************************************************)
(* A model of tunic.py (tuic-installer): the install / remove workflows    *)
(* of Scaffold, the port allocator of Project, the certificate hooks of    *)
(* CertBot, the Service wrapper, and the three client-config exporters.    *)
(*                                                                         *)
(* Text is modelled as a sequence of tokens (one-character strings, or a  *)
(* whole host name as one token), so that f-string formatting and         *)
(* str.split are computed, not assumed.  An Optional[int] is <<>> for     *)
(* None and <<p>> for the integer p.                                       *)
(***************************************************************************)
EXTENDS Integers, Sequences, FiniteSets, TLC

(***************************************************************************)
(* Program constants.                                                      *)
(***************************************************************************)
\* tunic.py:943  `if port < 49152`
PortFloor == 49152
\* tunic.py:151  `range(49152, 59152)`: first candidate
RandLo == 49152
\* tunic.py:151  `range(49152, 59152)`: one past the last candidate
RandHi == 59152
\* tunic.py:124  `_server_port = -1`
DefaultServerPort == -1
\* socket.bind raises OverflowError above this port (tunic.py:135)
MaxBindPort == 65535
\* tunic.py:250  the TCP port the certificate pre-hook probes
HttpPort == 80

(***************************************************************************)
(* Bounds of the model.                                                    *)
(***************************************************************************)
\* workflow invocations (install / remove / check) per behaviour
MaxRuns == 2
\* failed download attempts one download_server call can nest before the
\* interpreter refuses another nested call (it stands for the recursion limit)
MaxDownloadFails == 1

(***************************************************************************)
(* Input samples.                                                          *)
(***************************************************************************)
None == <<>>
Some(x) == <<x>>

\* UDP ports whose bindability the environment may change; every other
\* UDP port counts as bound.
UdpUniverse == {49151, 49152, 59151, 59152}
\* values of `-p`
RequestedPorts == {None, Some(80), Some(49151), Some(49152), Some(59152), Some(65536)}
Domains == {"relay.example.com"}
\* what getaddrinfo may resolve the domain to, and what ifconfig.me may answer
ResolvedIPs == {"203.0.113.7"}
PublicIPs == {"203.0.113.7", "198.51.100.9"}
\* User.gen(): uuid4() and token_hex() give a credential no earlier call gave;
\* the n-th invocation's credential is named after n.
gen_user(n) == [username |-> <<"uuid", n>>, password |-> <<"hex", n>>]
\* names under /etc/letsencrypt/live, as token sequences: the domain, then
\* what follows it in the name
NoSuffix == <<>>
StaleSuffixes == {<<"-", "0001">>}
LiveDir(d, suffix) == <<d>> \o suffix

Absent == [absent |-> TRUE]
NoUser == [username |-> "", password |-> ""]
NoDns == [resolved |-> "", mine |-> ""]
NotPolled == <<>>
NoFlags == [nekoray |-> FALSE, clash |-> FALSE, v2ray |-> FALSE, singbox |-> FALSE]
FlagSets == [nekoray : BOOLEAN, clash : BOOLEAN, v2ray : BOOLEAN, singbox : BOOLEAN]

\* everything a run can do to the world; `did` counts each per run
NetworkOps == {"dns", "public_ip", "apt", "certbot", "download"}
CertOps == {"purge", "apt", "stop80", "certbot", "revive80", "timer",
            "certbot_delete", "rm_cert_dir"}
FileOps == {"mkdir", "set_alias", "remove_alias", "write_unit", "chmod",
            "write_config", "write_nekoray", "write_meta", "write_singbox",
            "rm_unit", "rm_workstation"}
ServiceOps == {"daemon_reload", "svc_stop", "svc_start", "svc_status",
               "svc_disable", "pkill"}
PortOps == {"probe_requested", "allocate"}
Ops == NetworkOps \cup CertOps \cup FileOps \cup ServiceOps \cup PortOps
      \cup {"post_hook", "pre_hook", "print", "reset_shell", "log_start_failure"}

VARIABLES
    \* ---- the host ----
    freeUdp,        \* UDP ports a bind() on 0.0.0.0 succeeds on right now
    port80,         \* holder of TCP port 80: "free" | "nginx" | "other"
    stopped80,      \* what the pre-hook stopped on port 80 and is still down
    liveDirs,       \* directories under /etc/letsencrypt/live
    fullchain,      \* domains whose live/<domain>/fullchain.pem exists
    timer,          \* certbot.timer enabled
    certbot,        \* the certbot executable is installed
    certbotDeleting, \* a `certbot delete` child process has not finished yet
    workstation,    \* /home/tuic-server exists
    alias,          \* the tunic alias line is in ~/.bashrc
    unitFile,       \* /etc/systemd/system/tuic.service exists
    executable,     \* "absent" | "plain" | "exec"
    serverConfigFile, nekorayFile, metaFile, singboxFile, \* Absent or content
    svcEnabled, svcActive,   \* the tuic unit
    \* ---- the running invocation ----
    runs,           \* invocations started so far
    cmd,            \* "none" | "install" | "remove" | "check"
    pc,             \* position in the workflow
    exit,           \* "running" | "sys_exit" | "returned" | "execl" | "raised"
    reqPort,        \* params.port
    port,           \* install's local `port`
    dns,            \* what _validate_domain saw: the resolved and the public IP
    domain, server_ip,     \* install's / remove's locals
    project_port,   \* Project._server_port
    server_port,    \* install's local `server_port`
    user,           \* install's local `user`
    should_revive, is_success,   \* CertBot fields
    server_config,  \* install's local `server_config`
    dlFails,        \* failed download attempts of this download_server call
    flags,          \* params.nekoray / clash / v2ray / singbox
    polled,         \* install's locals (response, text), once status() returned
    printed,        \* client views printed by this run
    missing,        \* client configs this run reported as not existing
    did,            \* [Ops -> Nat]: what this run has done, and how often
    \* ---- the exporters taken alone ----
    ex,             \* inputs and outputs of one export (SpecExport)
    \* ---- a second installer process on the same host ----
    peer            \* its position and the port it chose (SpecRace)

hostVars == <<freeUdp, port80, stopped80, liveDirs, fullchain, timer, certbot,
              certbotDeleting, workstation, alias, unitFile, executable, serverConfigFile, nekorayFile, metaFile,
              singboxFile, svcEnabled, svcActive>>
runVars == <<runs, cmd, pc, exit, reqPort, port, dns, domain, server_ip, project_port,
             server_port, user, should_revive, is_success, server_config, dlFails, flags,
             polled, printed, missing, did>>
vars == <<hostVars, runVars, ex, peer>>

Bump(f, ops) == [o \in Ops |-> IF o \in ops THEN f[o] + 1 ELSE f[o]]
NoneDone == [o \in Ops |-> 0]

(***************************************************************************)
(* Project.is_port_in_used: bind a fresh socket; False when bind works,    *)
(* True when socket.error is suppressed.                                   *)
(***************************************************************************)
is_port_in_used(p, proto) ==
    IF proto = "udp" THEN p \notin freeUdp
    ELSE p = HttpPort /\ port80 # "free"

\* _validate_port with the range test off by one (`port <= 49152`)
validate_port_floor_off_by_one(p) ==
    IF p = None THEN [kind |-> "return", value |-> None]
    ELSE IF p[1] <= PortFloor THEN [kind |-> "sys_exit", value |-> None]
    ELSE IF p[1] > MaxBindPort THEN [kind |-> "raised", value |-> None]
    ELSE IF is_port_in_used(p[1], "udp") THEN [kind |-> "sys_exit", value |-> None]
    ELSE [kind |-> "return", value |-> p]

\* _validate_port without its `is_port_in_used` test
validate_port_unprobed(p) ==
    IF p = None THEN [kind |-> "return", value |-> None]
    ELSE IF p[1] < PortFloor THEN [kind |-> "sys_exit", value |-> None]
    ELSE IF p[1] > MaxBindPort THEN [kind |-> "raised", value |-> None]
    ELSE [kind |-> "return", value |-> p]

(***************************************************************************)
(* Scaffold._validate_port: the outcome for params.port.                   *)
(***************************************************************************)
validate_port(p) ==
    IF p = None THEN [kind |-> "return", value |-> None]
    ELSE IF p[1] < PortFloor THEN [kind |-> "sys_exit", value |-> None]
    ELSE IF p[1] > MaxBindPort THEN [kind |-> "raised", value |-> None]
    ELSE IF is_port_in_used(p[1], "udp") THEN [kind |-> "sys_exit", value |-> None]
    ELSE [kind |-> "return", value |-> p]

(***************************************************************************)
(* Project.server_port (getter): the values _server_port may hold after    *)
(* one read.  random.shuffle makes the first free candidate any free       *)
(* candidate; with none free the loop ends and the field keeps its value.  *)
(***************************************************************************)
\* range(49152, 59152) taken with its end included
rand_ports_end_included == RandLo .. RandHi
rand_ports == RandLo .. (RandHi - 1)
free_candidates == {p \in freeUdp : p \in rand_ports /\ ~is_port_in_used(p, "udp")}
\* the accessor without its `if self._server_port < 0` cache test
server_port_get_uncached(current) ==
    IF free_candidates = {} THEN {current} ELSE free_candidates
server_port_get(current) ==
    IF current < 0
    THEN IF free_candidates = {} THEN {current} ELSE free_candidates
    ELSE {current}

Terminate(how) == /\ pc' = "done"
                  /\ exit' = how

(***************************************************************************)
(* The command line: run() dispatches to Scaffold.install, remove, check.  *)
(***************************************************************************)
\* A command is started once a `certbot delete` left running by an earlier
\* remove has exited.
StartRun ==
    /\ pc \in {"idle", "done"}
    /\ ~certbotDeleting
    /\ runs < MaxRuns
    /\ runs' = runs + 1
    /\ \E c \in {"install", "remove", "check"} :
          /\ cmd' = c
          /\ pc' = IF c = "install" THEN "validate_port"
                   ELSE IF c = "remove" THEN "validate_domain" ELSE "parse"
    /\ exit' = "running"
    /\ reqPort' = None /\ port' = None /\ dns' = NoDns /\ domain' = "" /\ server_ip' = ""
    /\ project_port' = DefaultServerPort /\ server_port' = DefaultServerPort
    /\ user' = NoUser /\ should_revive' = FALSE /\ is_success' = TRUE
    /\ server_config' = Absent /\ dlFails' = 0 /\ did' = NoneDone
    /\ flags' = NoFlags /\ polled' = NotPolled /\ printed' = {} /\ missing' = {}
    /\ UNCHANGED <<hostVars, ex, peer>>

(***************************************************************************)
(* install, line 982: port = Scaffold._validate_port(params.port)          *)
(***************************************************************************)
\* a probe that keeps the port it bound
ValidatePort_reserving ==
    /\ pc = "validate_port"
    /\ \E p \in RequestedPorts :
         LET r == validate_port(p) IN
           /\ reqPort' = p
           /\ did' = IF p # None /\ p[1] >= PortFloor
                     THEN Bump(did, {"probe_requested"}) ELSE did
           /\ IF r.kind = "return"
              THEN /\ port' = r.value
                   /\ pc' = "validate_domain"
                   /\ exit' = exit
              ELSE /\ port' = port
                   /\ Terminate(r.kind)
    /\ freeUdp' = IF port' # None THEN freeUdp \ {port'[1]} ELSE freeUdp
    /\ UNCHANGED <<port80, stopped80, liveDirs, fullchain, timer, certbot, certbotDeleting,
                   workstation, alias, unitFile, executable, serverConfigFile,
                   nekorayFile, metaFile, singboxFile, svcEnabled, svcActive>>
    /\ UNCHANGED <<ex, peer, polled, runs, cmd, dns, domain, server_ip, project_port, server_port,
                   user, should_revive, is_success, server_config, dlFails, flags,
                   printed, missing>>

ValidatePort ==
    /\ pc = "validate_port"
    /\ \E p \in RequestedPorts :
         LET r == validate_port(p) IN
           /\ reqPort' = p
           /\ did' = IF p # None /\ p[1] >= PortFloor
                     THEN Bump(did, {"probe_requested"}) ELSE did
           /\ IF r.kind = "return"
              THEN /\ port' = r.value
                   /\ pc' = "validate_domain"
                   /\ exit' = exit
              ELSE /\ port' = port
                   /\ Terminate(r.kind)
    /\ UNCHANGED <<ex, peer, polled, hostVars, runs, cmd, dns, domain, server_ip, project_port, server_port,
                   user, should_revive, is_success, server_config, dlFails, flags,
                   printed, missing>>

(***************************************************************************)
(* Scaffold._validate_domain, lines 910-934: the outcome for what          *)
(* getaddrinfo gave (an address, or gaierror raised) and what ifconfig.me  *)
(* answered (an address, or urlopen raised).                               *)
(***************************************************************************)
\* _validate_domain logging the mismatch and returning all the same
validate_domain_mismatch_ignored(resolved, mine) ==
    IF resolved = "gaierror" THEN "sys_exit"
    ELSE IF mine = "urlerror" THEN "raised"
    ELSE "return"
validate_domain(resolved, mine) ==
    IF resolved = "gaierror" THEN "sys_exit"
    ELSE IF mine = "urlerror" THEN "raised"
    ELSE IF mine # resolved THEN "sys_exit"
    ELSE "return"

(***************************************************************************)
(* install line 984, remove line 1039.                                     *)
(***************************************************************************)
ValidateDomain ==
    /\ pc = "validate_domain"
    /\ \E d \in Domains, resolved \in ResolvedIPs \cup {"gaierror"},
          mine \in PublicIPs \cup {"urlerror"} :
         /\ dns' = [resolved |-> resolved,
                    mine |-> IF resolved = "gaierror" THEN "" ELSE mine]
         /\ did' = Bump(did, IF resolved = "gaierror" THEN {"dns"}
                             ELSE {"dns", "public_ip"})
         /\ IF validate_domain(resolved, mine) = "return"
            THEN /\ domain' = d
                 /\ server_ip' = resolved
                 /\ pc' = IF cmd = "install" THEN "cert_check" ELSE "remove_alias"
                 /\ exit' = exit
            ELSE /\ Terminate(validate_domain(resolved, mine))
                 /\ UNCHANGED <<domain, server_ip>>
    /\ UNCHANGED <<ex, peer, polled, hostVars, runs, cmd, reqPort, port, project_port, server_port,
                   user, should_revive, is_success, server_config, dlFails, flags,
                   printed, missing>>

(***************************************************************************)
(* install, lines 988-994: issue a certificate unless fullchain.pem exists *)
(***************************************************************************)
\* the existence test dropped: CertBot(domain).run() on every install
cert_needed_always(d) == TRUE
\* line 991: `not Path(cert.fullchain).exists()`
cert_needed(d) == d \notin fullchain

CertCheck ==
    /\ pc = "cert_check"
    /\ pc' = IF cert_needed(domain) THEN "cert_pre" ELSE "project"
    /\ UNCHANGED <<ex, peer, polled, hostVars, runs, cmd, exit, reqPort, port, dns, domain, server_ip,
                   project_port, server_port, user, should_revive, is_success,
                   server_config, dlFails, flags,
                   printed, missing, did>>

(***************************************************************************)
(* CertBot._cert_pre_hook: the directories it removes.                     *)
(***************************************************************************)
\* str.startswith
startswith(s, prefix) ==
    Len(s) >= Len(prefix) /\ SubSeq(s, 1, Len(prefix)) = prefix

\* the loop with the test on the domain's own directory dropped
purged_dirs_own_dir_untested(d) ==
    {k \in liveDirs : startswith(k, <<d, "-">>)}
\* lines 231-238; every entry of live/ is a directory
purged_dirs(d) ==
    {k \in liveDirs : /\ LiveDir(d, NoSuffix) \notin liveDirs
                      /\ startswith(k, <<d, "-">>)}

(***************************************************************************)
(* CertBot._cert_pre_hook, lines 226-253.                                  *)
(***************************************************************************)
CertPreHook ==
    /\ pc = "cert_pre"
    /\ liveDirs' = liveDirs \ purged_dirs(domain)
    /\ IF is_port_in_used(HttpPort, "tcp")
       THEN /\ stopped80' = port80
            /\ port80' = "free"
            /\ should_revive' = TRUE
            /\ did' = Bump(did, {"pre_hook", "apt", "stop80"}
                                \cup IF purged_dirs(domain) # {} THEN {"purge"} ELSE {})
       ELSE /\ UNCHANGED <<stopped80, port80, should_revive>>
            /\ did' = Bump(did, {"pre_hook", "apt"}
                                \cup IF purged_dirs(domain) # {} THEN {"purge"} ELSE {})
    /\ certbot' \in (IF certbot THEN {TRUE} ELSE BOOLEAN)
    /\ pc' = "cert_run"
    /\ UNCHANGED <<freeUdp, fullchain, timer, workstation, alias, unitFile, executable,
                   serverConfigFile, nekorayFile, metaFile, singboxFile, svcEnabled,
                   svcActive>>
    /\ UNCHANGED <<ex, peer, polled, certbotDeleting, runs, cmd, exit, reqPort, port, dns, domain, server_ip, project_port,
                   server_port, user, is_success, server_config, dlFails, flags,
                   printed, missing>>

(***************************************************************************)
(* CertBot._run, lines 269-297.  Popen raises FileNotFoundError when the    *)
(* tool is not installed; otherwise the tool issues the bundle, reports    *)
(* the rate limit ("168 hours" on stderr), or fails with another message.  *)
(***************************************************************************)
CertbotOutcomes == {"issued", "rate_limited", "failed"}

CertRun ==
    /\ pc = "cert_run"
    /\ did' = Bump(did, {"certbot"})
    /\ IF ~certbot
       THEN /\ Terminate("raised")
            /\ UNCHANGED <<liveDirs, fullchain, is_success>>
       ELSE \E out \in CertbotOutcomes :
            /\ pc' = "cert_post"
            /\ exit' = exit
            /\ is_success' = IF out = "rate_limited" THEN FALSE ELSE is_success
            /\ IF out = "issued"
               THEN /\ liveDirs' = liveDirs \cup {LiveDir(domain, NoSuffix)}
                    /\ fullchain' = fullchain \cup {domain}
               ELSE UNCHANGED <<liveDirs, fullchain>>
    /\ UNCHANGED <<freeUdp, port80, stopped80, timer, certbot, workstation, alias,
                   unitFile, executable, serverConfigFile, nekorayFile, metaFile,
                   singboxFile, svcEnabled, svcActive>>
    /\ UNCHANGED <<ex, peer, polled, certbotDeleting, runs, cmd, reqPort, port, dns, domain, server_ip, project_port,
                   server_port, user, should_revive, server_config, dlFails, flags,
                   printed, missing>>

(***************************************************************************)
(* CertBot._cert_post_hook, lines 255-267: what it does, in order, for the *)
(* two CertBot fields: restart nginx, sys.exit(), enable certbot.timer.    *)
(***************************************************************************)
\* the post-hook testing _is_success before it revives port 80
cert_post_hook_exit_first(revive, success) ==
    [revive |-> revive /\ success, exit |-> ~success, timer |-> success]
cert_post_hook(revive, success) ==
    [revive |-> revive, exit |-> ~success, timer |-> success]

(***************************************************************************)
(* CertBot.run line 302.  `systemctl restart nginx` brings nginx back when *)
(* nginx is what the pre-hook stopped.                                     *)
(***************************************************************************)
CertPostHook ==
    /\ pc = "cert_post"
    /\ LET h == cert_post_hook(should_revive, is_success) IN
       /\ IF h.revive
          THEN /\ port80' = IF stopped80 = "nginx" THEN "nginx" ELSE port80
               /\ stopped80' = IF stopped80 = "nginx" THEN "free" ELSE stopped80
               /\ should_revive' = FALSE
          ELSE UNCHANGED <<port80, stopped80, should_revive>>
       /\ IF h.exit THEN Terminate("sys_exit") ELSE pc' = "project" /\ exit' = exit
       /\ timer' = IF h.timer THEN TRUE ELSE timer
       /\ did' = Bump(did, {"post_hook"}
                           \cup (IF h.revive THEN {"revive80"} ELSE {})
                           \cup (IF h.timer THEN {"timer", "daemon_reload"} ELSE {}))
    /\ UNCHANGED <<freeUdp, liveDirs, fullchain, certbot, workstation, alias, unitFile,
                   executable, serverConfigFile, nekorayFile, metaFile, singboxFile,
                   svcEnabled, svcActive>>
    /\ UNCHANGED <<ex, peer, polled, certbotDeleting, runs, cmd, reqPort, port, dns, domain, server_ip, project_port,
                   server_port, user, is_success, server_config, dlFails, flags,
                   printed, missing>>

(***************************************************************************)
(* install, lines 997-1001: Project() makes the workstation directory,     *)
(* User.gen() draws a credential, set_alias appends the alias once.        *)
(***************************************************************************)
InitProject ==
    /\ pc = "project"
    /\ workstation' = TRUE
    /\ user' = gen_user(runs)
    /\ alias' = TRUE
    /\ did' = Bump(did, {"mkdir"} \cup IF alias THEN {} ELSE {"set_alias"})
    /\ pc' = "finalize_port"
    /\ UNCHANGED <<freeUdp, port80, stopped80, liveDirs, fullchain, timer, certbot, unitFile,
                   executable, serverConfigFile, nekorayFile, metaFile, singboxFile,
                   svcEnabled, svcActive>>
    /\ UNCHANGED <<ex, peer, polled, certbotDeleting, runs, cmd, exit, reqPort, port, dns, domain, server_ip, project_port,
                   server_port, should_revive, is_success, server_config, dlFails, flags,
                   printed, missing>>

(***************************************************************************)
(* install, line 1004: project.server_port = port or project.server_port   *)
(* `or` reads the accessor only when port is None.                         *)
(***************************************************************************)
\* line 1004 with the operands swapped: `project.server_port or port`
FinalizePort_accessor_first ==
    /\ pc = "finalize_port"
    /\ project_port' \in server_port_get(project_port)
    /\ did' = Bump(did, {"allocate"})
    /\ pc' = "read_port"
    /\ UNCHANGED <<ex, peer, polled, hostVars, runs, cmd, exit, reqPort, port, dns, domain, server_ip,
                   server_port, user, should_revive, is_success, server_config, dlFails, flags,
                   printed, missing>>

FinalizePort ==
    /\ pc = "finalize_port"
    /\ IF port # None
       THEN /\ project_port' = port[1]
            /\ did' = did
       ELSE /\ project_port' \in server_port_get(project_port)
            /\ did' = Bump(did, {"allocate"})
    /\ pc' = "read_port"
    /\ UNCHANGED <<ex, peer, polled, hostVars, runs, cmd, exit, reqPort, port, dns, domain, server_ip,
                   server_port, user, should_revive, is_success, server_config, dlFails, flags,
                   printed, missing>>

(***************************************************************************)
(* install, line 1005: server_port = project.server_port                   *)
(***************************************************************************)
ReadPort ==
    /\ pc = "read_port"
    /\ project_port' \in server_port_get(project_port)
    /\ server_port' = project_port'
    /\ did' = IF project_port < 0 THEN Bump(did, {"allocate"}) ELSE did
    /\ pc' = "build_unit"
    /\ UNCHANGED <<ex, peer, polled, hostVars, runs, cmd, exit, reqPort, port, dns, domain, server_ip,
                   user, should_revive, is_success, server_config, dlFails, flags,
                   printed, missing>>

(***************************************************************************)
(* Text.  str(int) and int(str) in decimal; str.split on one separator.    *)
(***************************************************************************)
DigitChar == <<"0", "1", "2", "3", "4", "5", "6", "7", "8", "9">>

RECURSIVE NatStr(_)
NatStr(n) == IF n < 10 THEN <<DigitChar[n + 1]>>
             ELSE NatStr(n \div 10) \o <<DigitChar[(n % 10) + 1]>>

IntStr(n) == IF n < 0 THEN <<"-">> \o NatStr(0 - n) ELSE NatStr(n)

DigitVal(c) == (CHOOSE i \in 1..10 : DigitChar[i] = c) - 1

RECURSIVE StrNat(_)
StrNat(s) == IF Len(s) = 0 THEN 0
             ELSE 10 * StrNat(SubSeq(s, 1, Len(s) - 1)) + DigitVal(s[Len(s)])

StrInt(s) == IF Len(s) > 0 /\ s[1] = "-" THEN 0 - StrNat(Tail(s)) ELSE StrNat(s)

\* s.split(sep): the segments of s between occurrences of sep
RECURSIVE Split(_, _)
Split(s, sep) ==
    IF \A i \in 1..Len(s) : s[i] # sep THEN <<s>>
    ELSE LET i == CHOOSE j \in 1..Len(s) :
                     s[j] = sep /\ \A k \in 1..(j - 1) : s[k] # sep
         IN <<SubSeq(s, 1, i - 1)>> \o Split(SubSeq(s, i + 1, Len(s)), sep)

(***************************************************************************)
(* Certificate.fullchain / Certificate.privkey                             *)
(***************************************************************************)
cert_fullchain(d) == <<"/etc/letsencrypt/live/", d, "/fullchain.pem">>
cert_privkey(d) == <<"/etc/letsencrypt/live/", d, "/privkey.pem">>

(***************************************************************************)
(* ServerConfig: the dataclass defaults, __post_init__ and from_automation *)
(***************************************************************************)
DefaultAlpn == <<"h3", "spdy/3.1">>

ServerDefaults ==
    [ congestion_control |-> "bbr", alpn |-> <<>>, udp_relay_ipv6 |-> TRUE,
      zero_rtt_handshake |-> TRUE, dual_stack |-> None, auth_timeout |-> "3s",
      task_negotiation_timeout |-> "3s", max_idle_time |-> "10s",
      max_external_packet_size |-> 1500, send_window |-> 16777216,
      receive_window |-> 8388608, gc_interval |-> "3s", gc_lifetime |-> "15s",
      log_level |-> "warn" ]

\* ServerConfig(server=..., users=..., certificate=..., private_key=..., **tunables)
ServerConfig(server, users, certificate, private_key, tunables) ==
    [ server |-> IF server = <<>> THEN <<"[::]", ":">> \o IntStr(443) ELSE server,
      users |-> users,
      certificate |-> certificate,
      private_key |-> private_key,
      congestion_control |-> tunables.congestion_control,
      alpn |-> IF tunables.alpn = <<>> THEN DefaultAlpn ELSE tunables.alpn,
      udp_relay_ipv6 |-> tunables.udp_relay_ipv6,
      zero_rtt_handshake |-> tunables.zero_rtt_handshake,
      dual_stack |-> tunables.dual_stack,
      auth_timeout |-> tunables.auth_timeout,
      task_negotiation_timeout |-> tunables.task_negotiation_timeout,
      max_idle_time |-> tunables.max_idle_time,
      max_external_packet_size |-> tunables.max_external_packet_size,
      send_window |-> tunables.send_window,
      receive_window |-> tunables.receive_window,
      gc_interval |-> tunables.gc_interval,
      gc_lifetime |-> tunables.gc_lifetime,
      log_level |-> tunables.log_level ]

from_automation(u, path_fullchain, path_privkey, sport) ==
    ServerConfig(<<"[::]", ":">> \o IntStr(sport), (u.username :> u.password),
                 path_fullchain, path_privkey, ServerDefaults)

(***************************************************************************)
(* ClientRelay: the dataclass defaults, __post_init__ and copy_from_server *)
(***************************************************************************)
ClientRelay(server, uuid, password, alpn, congestion_control, send_window, receive_window, gc_interval, gc_lifetime) ==
    [ server |-> server, uuid |-> uuid, password |-> password,
      ip |-> None, certificates |-> None, udp_relay_mode |-> "quic",
      congestion_control |-> congestion_control,
      alpn |-> IF alpn = <<>> THEN DefaultAlpn ELSE alpn,
      zero_rtt_handshake |-> TRUE,
      send_window |-> send_window, receive_window |-> receive_window,
      gc_interval |-> gc_interval, gc_lifetime |-> gc_lifetime ]

copy_from_server(d, u, sc, sport) ==
    ClientRelay(<<d, ":">> \o IntStr(sport), u.username, u.password, sc.alpn,
                sc.congestion_control, sc.send_window, sc.receive_window,
                sc.gc_interval, sc.gc_lifetime)

(***************************************************************************)
(* NekoRayConfig.from_server: it assigns relay.server and relay.ip on the  *)
(* ClientRelay it is given, then copies the fields that are not None.      *)
(***************************************************************************)
OptionalRelayFields == {"ip", "certificates"}

\* the ClientRelay argument as from_server leaves it
nekoray_relay_after(relay, server_addr, sport, sip) ==
    [relay EXCEPT !.server = <<server_addr, ":">> \o IntStr(sport),
                  !.ip = IF sip # None THEN sip ELSE @]

ClientLocal ==
    [ server |-> <<"127.0.0.1", ":", "%socks_port%">>, username |-> None,
      password |-> None, dual_stack |-> None, max_packet_size |-> Some(1500) ]

WithoutNone(r, optional) ==
    [k \in (DOMAIN r) \ {o \in optional \cap DOMAIN r : r[o] = None} |-> r[k]]

nekoray_from_server(relay, server_addr, sport, sip) ==
    [ relay |-> WithoutNone(nekoray_relay_after(relay, server_addr, sport, sip),
                            OptionalRelayFields),
      local |-> WithoutNone(ClientLocal, DOMAIN ClientLocal),
      log_level |-> "warn" ]

\* NekoRayConfig.serv_peer
serv_peer(neko) == Split(neko.relay.server, ":")

(***************************************************************************)
(* ClashMetaConfig.from_server: the proxy entry, field by field as the     *)
(* f-string renders it.                                                    *)
(***************************************************************************)
OrEmpty(opt) == IF opt = None THEN "" ELSE opt[1]

clash_from_server(relay, server_addr, sport, sip) ==
    [ proxy |-> [ name |-> "tunic", type |-> "tuic",
                  server |-> server_addr,
                  port |-> IntStr(sport),
                  uuid |-> relay.uuid,
                  password |-> relay.password,
                  ip |-> OrEmpty(sip),
                  udp_relay_mode |-> relay.udp_relay_mode,
                  congestion_controller |-> relay.congestion_control,
                  alpn |-> relay.alpn,
                  reduce_rtt |-> relay.zero_rtt_handshake,
                  max_udp_relay_packet_size |-> IntStr(1464) ],
      proxy_group |-> [ name |-> "PROXY", type |-> "select", proxies |-> <<"tunic">> ] ]

(***************************************************************************)
(* SingBoxConfig.from_server                                               *)
(***************************************************************************)
singbox_from_server(relay, server_addr, sport, sip) ==
    [ type |-> "tuic", tag |-> "tuic-out",
      server |-> OrEmpty(sip),
      server_port |-> sport,
      uuid |-> relay.uuid,
      password |-> relay.password,
      congestion_control |-> relay.congestion_control,
      udp_relay_mode |-> relay.udp_relay_mode,
      zero_rtt_handshake |-> relay.zero_rtt_handshake,
      tls |-> [ enabled |-> TRUE, disable_sni |-> FALSE, server_name |-> server_addr,
                insecure |-> FALSE, alpn |-> relay.alpn ] ]

(***************************************************************************)
(* install, lines 1008-1011: Service.build_from_template writes the unit   *)
(* file and reloads systemd.                                               *)
(***************************************************************************)
\* the unit enabled and started as soon as it is registered
BuildUnit_enable_now ==
    /\ pc = "build_unit"
    /\ unitFile' = TRUE
    /\ svcEnabled' = TRUE
    /\ did' = Bump(did, {"write_unit", "daemon_reload", "svc_start"})
    /\ pc' = "download"
    /\ UNCHANGED <<freeUdp, port80, stopped80, liveDirs, fullchain, timer, certbot,
                   workstation, alias, executable, serverConfigFile, nekorayFile,
                   metaFile, singboxFile, svcActive>>
    /\ UNCHANGED <<ex, peer, polled, certbotDeleting, runs, cmd, exit, reqPort, port, dns, domain, server_ip, project_port,
                   server_port, user, should_revive, is_success, server_config, dlFails,
                   flags, printed, missing>>

BuildUnit ==
    /\ pc = "build_unit"
    /\ unitFile' = TRUE
    /\ did' = Bump(did, {"write_unit", "daemon_reload"})
    /\ pc' = "download"
    /\ UNCHANGED <<freeUdp, port80, stopped80, liveDirs, fullchain, timer, certbot,
                   workstation, alias, executable, serverConfigFile, nekorayFile,
                   metaFile, singboxFile, svcEnabled, svcActive>>
    /\ UNCHANGED <<ex, peer, polled, certbotDeleting, runs, cmd, exit, reqPort, port, dns, domain, server_ip, project_port,
                   server_port, user, should_revive, is_success, server_config, dlFails,
                   flags, printed, missing>>

(***************************************************************************)
(* Service.download_server, lines 333-345 (install line 1014): one attempt.*)
(* urlretrieve either succeeds, and the file is made executable, or raises *)
(* OSError, and the service is stopped before the call recurses from       *)
(* inside the except clause.  Every failed attempt nests one call deeper;  *)
(* at the interpreter's recursion limit (MaxDownloadFails stands for it)   *)
(* the next attempt ends in RecursionError, which is no OSError and        *)
(* leaves install.                                                         *)
(***************************************************************************)
DownloadServer ==
    /\ pc = "download"
    /\ \E ok \in BOOLEAN :
         IF ok
         THEN /\ executable' = "exec"
              /\ did' = Bump(did, {"download", "chmod"})
              /\ dlFails' = 0
              /\ pc' = "write_config" /\ exit' = exit
              /\ svcActive' = svcActive
         ELSE IF dlFails < MaxDownloadFails
         THEN /\ executable' = executable
              /\ did' = Bump(did, {"download", "svc_stop"})
              /\ dlFails' = dlFails + 1
              /\ pc' = pc /\ exit' = exit
              /\ svcActive' = FALSE
         ELSE /\ executable' = executable
              /\ did' = did
              /\ dlFails' = dlFails
              /\ Terminate("raised")
              /\ svcActive' = svcActive
    /\ UNCHANGED <<freeUdp, port80, stopped80, liveDirs, fullchain, timer, certbot,
                   workstation, alias, unitFile, serverConfigFile, nekorayFile,
                   metaFile, singboxFile, svcEnabled>>
    /\ UNCHANGED <<ex, peer, polled, certbotDeleting, runs, cmd, reqPort, port, dns, domain, server_ip, project_port,
                   server_port, user, should_revive, is_success, server_config,
                   flags, printed, missing>>

(***************************************************************************)
(* install, lines 1017-1020: ServerConfig.from_automation, then to_json.   *)
(***************************************************************************)
WriteServerConfig ==
    /\ pc = "write_config"
    /\ server_config' = from_automation(user, cert_fullchain(domain),
                                        cert_privkey(domain), server_port)
    /\ serverConfigFile' = server_config'
    /\ did' = Bump(did, {"write_config"})
    /\ pc' = "start"
    /\ UNCHANGED <<freeUdp, port80, stopped80, liveDirs, fullchain, timer, certbot,
                   workstation, alias, unitFile, executable, nekorayFile, metaFile,
                   singboxFile, svcEnabled, svcActive>>
    /\ UNCHANGED <<ex, peer, polled, certbotDeleting, runs, cmd, exit, reqPort, port, dns, domain, server_ip, project_port,
                   server_port, user, should_revive, is_success, dlFails,
                   flags, printed, missing>>

(***************************************************************************)
(* Service.start, lines 347-350 (install line 1023): enable --now.  The    *)
(* relay is an opaque executable: it comes up or it does not.              *)
(***************************************************************************)
StartService ==
    /\ pc = "start"
    /\ svcEnabled' = TRUE
    /\ svcActive' \in BOOLEAN
    /\ did' = Bump(did, {"svc_start"})
    /\ pc' = "status"
    /\ UNCHANGED <<freeUdp, port80, stopped80, liveDirs, fullchain, timer, certbot,
                   workstation, alias, unitFile, executable, serverConfigFile,
                   nekorayFile, metaFile, singboxFile>>
    /\ UNCHANGED <<ex, peer, polled, certbotDeleting, runs, cmd, exit, reqPort, port, dns, domain, server_ip, project_port,
                   server_port, user, should_revive, is_success, server_config, dlFails,
                   flags, printed, missing>>

(***************************************************************************)
(* Service.status, lines 361-372: (response, text) for what                *)
(* `systemctl is-active` printed.                                          *)
(***************************************************************************)
\* anything but "inactive" taken for success
status_unknown_is_success(text) ==
    IF text = "inactive" THEN <<None, <<"ESC[91m", text, "ESC[0m">>>>
    ELSE <<Some(TRUE), <<"ESC[32m", text, "ESC[0m">>>>
status(text) ==
    IF text = "inactive" THEN <<None, <<"ESC[91m", text, "ESC[0m">>>>
    ELSE IF text = "active" THEN <<Some(TRUE), <<"ESC[32m", text, "ESC[0m">>>>
    ELSE <<None, <<text>>>>

\* what `systemctl is-active tuic` can print
IsActiveTexts == IF svcActive THEN {"active"} ELSE {"inactive", "failed"}

(***************************************************************************)
(* install, lines 1026-1035: poll; on anything but True log and return.    *)
(***************************************************************************)
\* a poll that undoes the deployment when the service is not active
PollStatus_rollback ==
    /\ pc = "status"
    /\ \E text \in IsActiveTexts :
         /\ polled' = status(text)
         /\ IF status(text)[1] = Some(TRUE)
            THEN /\ pc' = "gen_clients" /\ exit' = exit
                 /\ did' = Bump(did, {"svc_status"})
                 /\ UNCHANGED <<unitFile, serverConfigFile, svcEnabled>>
            ELSE /\ Terminate("returned")
                 /\ did' = Bump(did, {"svc_status", "log_start_failure"})
                 /\ unitFile' = FALSE /\ serverConfigFile' = Absent /\ svcEnabled' = FALSE
    /\ UNCHANGED <<freeUdp, port80, stopped80, liveDirs, fullchain, timer, certbot,
                   workstation, alias, executable, nekorayFile, metaFile, singboxFile,
                   svcActive>>
    /\ UNCHANGED <<ex, peer, certbotDeleting, runs, cmd, reqPort, port, dns, domain, server_ip, project_port,
                   server_port, user, should_revive, is_success, server_config, dlFails,
                   flags, printed, missing>>

PollStatus ==
    /\ pc = "status"
    /\ \E text \in IsActiveTexts :
         /\ polled' = status(text)
         /\ IF status(text)[1] = Some(TRUE)
            THEN /\ pc' = "gen_clients" /\ exit' = exit
                 /\ did' = Bump(did, {"svc_status"})
            ELSE /\ Terminate("returned")
                 /\ did' = Bump(did, {"svc_status", "log_start_failure"})
    /\ UNCHANGED <<ex, peer, hostVars, runs, cmd, reqPort, port, dns, domain, server_ip, project_port,
                   server_port, user, should_revive, is_success, server_config, dlFails,
                   flags, printed, missing>>

(***************************************************************************)
(* Template.gen_clients, lines 840-861 (install line 1031).  It reads the  *)
(* project.server_port accessor, builds one ClientRelay and hands the same *)
(* object to the three exporters in turn.                                  *)
(***************************************************************************)
GenClients ==
    /\ pc = "gen_clients"
    /\ project_port' \in server_port_get(project_port)
    /\ LET sp == project_port'
           sip == Some(server_ip)
           relay0 == copy_from_server(domain, user, server_config, sp)
           relay1 == nekoray_relay_after(relay0, domain, sp, sip)
       IN /\ nekorayFile' = nekoray_from_server(relay0, domain, sp, sip)
          /\ metaFile' = clash_from_server(relay1, domain, sp, sip)
          /\ singboxFile' = singbox_from_server(relay1, domain, sp, sip)
    /\ did' = Bump(did, {"write_nekoray", "write_meta", "write_singbox"}
                        \cup IF project_port < 0 THEN {"allocate"} ELSE {})
    /\ pc' = "parse"
    /\ UNCHANGED <<freeUdp, port80, stopped80, liveDirs, fullchain, timer, certbot,
                   workstation, alias, unitFile, executable, serverConfigFile,
                   svcEnabled, svcActive>>
    /\ UNCHANGED <<ex, peer, polled, certbotDeleting, runs, cmd, exit, reqPort, port, dns, domain, server_ip,
                   server_port, user, should_revive, is_success, server_config, dlFails,
                   flags, printed, missing>>

(***************************************************************************)
(* Template.parse and the three print_* methods, lines 863-906.            *)
(* print_singbox tests the NekoRay file and then reads the sing-box file.  *)
(***************************************************************************)
requested_views(f) ==
    IF ~(f.clash \/ f.nekoray \/ f.v2ray \/ f.singbox) THEN <<"nekoray", "clash", "singbox">>
    ELSE IF f.nekoray THEN <<"nekoray">>
    ELSE IF f.clash THEN <<"clash">>
    ELSE IF f.singbox THEN <<"singbox">>
    ELSE <<>>

\* one print_* call: [printed, missing, raised]
print_view(v) ==
    IF v = "nekoray"
    THEN IF nekorayFile = Absent
         THEN [printed |-> {}, missing |-> {"nekoray"}, raised |-> FALSE]
         ELSE [printed |-> {"nekoray"}, missing |-> {}, raised |-> FALSE]
    ELSE IF v = "clash"
    THEN IF metaFile = Absent
         THEN [printed |-> {}, missing |-> {"clash"}, raised |-> FALSE]
         ELSE [printed |-> {"clash"}, missing |-> {}, raised |-> FALSE]
    ELSE IF nekorayFile = Absent
         THEN [printed |-> {}, missing |-> {"nekoray"}, raised |-> FALSE]
         ELSE IF singboxFile = Absent
              THEN [printed |-> {}, missing |-> {}, raised |-> TRUE]
              ELSE [printed |-> {"singbox"}, missing |-> {}, raised |-> FALSE]

\* the calls in order, stopping at the first that raises
RECURSIVE parse_views(_, _)
parse_views(views, acc) ==
    IF views = <<>> \/ acc.raised THEN acc
    ELSE LET r == print_view(Head(views))
         IN parse_views(Tail(views),
                        [printed |-> acc.printed \cup r.printed,
                         missing |-> acc.missing \cup r.missing,
                         raised |-> r.raised])

parse(f) == parse_views(requested_views(f), [printed |-> {}, missing |-> {}, raised |-> FALSE])

(***************************************************************************)
(* install line 1032 (t.parse(params)) and Scaffold.check, lines 1056-1059 *)
(* (Project() first makes the workstation directory).                      *)
(***************************************************************************)
Parse ==
    /\ pc = "parse"
    /\ \E f \in FlagSets :
         /\ flags' = f
         /\ printed' = parse(f).printed
         /\ missing' = parse(f).missing
         /\ IF parse(f).raised THEN Terminate("raised")
            ELSE IF cmd = "install" THEN pc' = "reset_shell" /\ exit' = exit
            ELSE Terminate("returned")
    /\ workstation' = TRUE
    /\ did' = Bump(did, {"print"} \cup IF cmd = "check" THEN {"mkdir"} ELSE {})
    /\ UNCHANGED <<freeUdp, port80, stopped80, liveDirs, fullchain, timer, certbot,
                   alias, unitFile, executable, serverConfigFile, nekorayFile, metaFile,
                   singboxFile, svcEnabled, svcActive>>
    /\ UNCHANGED <<ex, peer, polled, certbotDeleting, runs, cmd, reqPort, port, dns, domain, server_ip, project_port,
                   server_port, user, should_revive, is_success, server_config, dlFails>>

(***************************************************************************)
(* Project.reset_shell, lines 193-196: os.execl replaces the process.      *)
(***************************************************************************)
ResetShell ==
    /\ pc = "reset_shell"
    /\ did' = Bump(did, {"reset_shell"})
    /\ Terminate("execl")
    /\ UNCHANGED <<ex, peer, polled, hostVars, runs, cmd, reqPort, port, dns, domain, server_ip, project_port,
                   server_port, user, should_revive, is_success, server_config, dlFails,
                   flags, printed, missing>>

(***************************************************************************)
(* remove, lines 1042-1045: Project() makes the workstation directory,     *)
(* remove_alias rewrites the shell files without the alias line.           *)
(***************************************************************************)
RemoveAlias ==
    /\ pc = "remove_alias"
    /\ workstation' = TRUE
    /\ alias' = FALSE
    /\ did' = Bump(did, {"mkdir", "remove_alias"})
    /\ pc' = "cert_remove"
    /\ UNCHANGED <<freeUdp, port80, stopped80, liveDirs, fullchain, timer, certbot,
                   unitFile, executable, serverConfigFile, nekorayFile, metaFile,
                   singboxFile, svcEnabled, svcActive>>
    /\ UNCHANGED <<ex, peer, polled, certbotDeleting, runs, cmd, exit, reqPort, port, dns, domain, server_ip, project_port,
                   server_port, user, should_revive, is_success, server_config, dlFails,
                   flags, printed, missing>>

(***************************************************************************)
(* CertBot.remove, lines 304-318 (remove line 1048): spawn `certbot        *)
(* delete`, answer "y", then rmtree the domain's live directory.  Popen    *)
(* raises FileNotFoundError when the tool is not installed.                *)
(***************************************************************************)
\* whether the child is still running when rmtree is called: Popen does not
\* wait, and nothing else in remove() does
cert_remove_child_running == BOOLEAN

CertRemove ==
    /\ pc = "cert_remove"
    /\ IF ~certbot
       THEN /\ Terminate("raised")
            /\ did' = Bump(did, {"certbot_delete"})
            /\ UNCHANGED <<liveDirs, fullchain, certbotDeleting>>
       ELSE /\ liveDirs' = liveDirs \ {LiveDir(domain, NoSuffix)}
            /\ fullchain' = fullchain \ {domain}
            /\ certbotDeleting' \in cert_remove_child_running
            /\ did' = Bump(did, {"certbot_delete", "rm_cert_dir"})
            /\ pc' = "service_remove"
            /\ exit' = exit
    /\ UNCHANGED <<freeUdp, port80, stopped80, timer, certbot, workstation, alias,
                   unitFile, executable, serverConfigFile, nekorayFile, metaFile,
                   singboxFile, svcEnabled, svcActive>>
    /\ UNCHANGED <<ex, peer, polled, runs, cmd, reqPort, port, dns, domain, server_ip, project_port,
                   server_port, user, should_revive, is_success, server_config, dlFails,
                   flags, printed, missing>>

\* the `certbot delete` child process exits; what it would delete under
\* live/ is already gone
CertbotDeleteExit ==
    /\ certbotDeleting
    /\ certbotDeleting' = FALSE
    /\ UNCHANGED <<freeUdp, port80, stopped80, liveDirs, fullchain, timer, certbot,
                   workstation, alias, unitFile, executable, serverConfigFile,
                   nekorayFile, metaFile, singboxFile, svcEnabled, svcActive>>
    /\ UNCHANGED <<ex, peer, runVars>>

(***************************************************************************)
(* Service.remove, lines 374-386 (remove lines 1051-1052).                 *)
(***************************************************************************)
\* Service.remove leaving the unit file where it is
ServiceRemove_unit_left ==
    /\ pc = "service_remove"
    /\ svcEnabled' = FALSE
    /\ svcActive' = FALSE
    /\ workstation' = FALSE
    /\ executable' = "absent"
    /\ serverConfigFile' = Absent
    /\ nekorayFile' = Absent
    /\ metaFile' = Absent
    /\ singboxFile' = Absent
    /\ did' = Bump(did, {"svc_disable", "pkill", "rm_workstation"})
    /\ pc' = "reset_shell"
    /\ UNCHANGED <<freeUdp, port80, stopped80, liveDirs, fullchain, timer, certbot, alias,
                   unitFile>>
    /\ UNCHANGED <<ex, peer, polled, certbotDeleting, runs, cmd, exit, reqPort, port, dns, domain,
                   server_ip, project_port, server_port, user, should_revive, is_success,
                   server_config, dlFails, flags, printed, missing>>

ServiceRemove ==
    /\ pc = "service_remove"
    /\ svcEnabled' = FALSE
    /\ svcActive' = FALSE
    /\ unitFile' = FALSE
    /\ workstation' = FALSE
    /\ executable' = "absent"
    /\ serverConfigFile' = Absent
    /\ nekorayFile' = Absent
    /\ metaFile' = Absent
    /\ singboxFile' = Absent
    /\ did' = Bump(did, {"svc_disable", "pkill", "rm_workstation"}
                        \cup IF unitFile THEN {"rm_unit"} ELSE {})
    /\ pc' = "reset_shell"
    /\ UNCHANGED <<freeUdp, port80, stopped80, liveDirs, fullchain, timer, certbot, alias>>
    /\ UNCHANGED <<ex, peer, polled, certbotDeleting, runs, cmd, exit, reqPort, port, dns, domain, server_ip, project_port,
                   server_port, user, should_revive, is_success, server_config, dlFails,
                   flags, printed, missing>>

(***************************************************************************)
(* The rest of the host: other processes bind and release UDP ports.  The   *)
(* program sees the change at its next probe, so only the positions from   *)
(* which the next step may probe are interleaved with it.                  *)
(***************************************************************************)
ProbingNext == {"validate_port", "finalize_port", "read_port", "gen_clients"}

EnvBind ==
    /\ pc \in ProbingNext
    /\ \E p \in freeUdp : freeUdp' = freeUdp \ {p}
    /\ UNCHANGED <<port80, stopped80, liveDirs, fullchain, timer, certbot, workstation,
                   alias, unitFile, executable, serverConfigFile, nekorayFile, metaFile,
                   singboxFile, svcEnabled, svcActive>>
    /\ UNCHANGED <<ex, peer, certbotDeleting, runVars>>

EnvRelease ==
    /\ pc \in ProbingNext
    /\ \E p \in UdpUniverse \ freeUdp : freeUdp' = freeUdp \cup {p}
    /\ UNCHANGED <<port80, stopped80, liveDirs, fullchain, timer, certbot, workstation,
                   alias, unitFile, executable, serverConfigFile, nekorayFile, metaFile,
                   singboxFile, svcEnabled, svcActive>>
    /\ UNCHANGED <<ex, peer, certbotDeleting, runVars>>

(***************************************************************************)
(* The initial state: a host on which the installer has not run.           *)
(***************************************************************************)
NoExport == [stage |-> "off"]
NoPeer == [pc |-> "off", port |-> DefaultServerPort]

NothingInstalled ==
    /\ stopped80 = "free"
    /\ fullchain = {}
    /\ certbotDeleting = FALSE
    /\ timer = FALSE
    /\ workstation = FALSE /\ alias = FALSE /\ unitFile = FALSE
    /\ executable = "absent"
    /\ serverConfigFile = Absent /\ nekorayFile = Absent
    /\ metaFile = Absent /\ singboxFile = Absent
    /\ svcEnabled = FALSE /\ svcActive = FALSE

NoRun ==
    /\ runs = 0 /\ cmd = "none" /\ pc = "idle" /\ exit = "running"
    /\ reqPort = None /\ port = None /\ dns = NoDns /\ domain = "" /\ server_ip = ""
    /\ project_port = DefaultServerPort /\ server_port = DefaultServerPort
    /\ user = NoUser /\ should_revive = FALSE /\ is_success = TRUE
    /\ server_config = Absent /\ dlFails = 0 /\ did = NoneDone
    /\ flags = NoFlags /\ polled = NotPolled /\ printed = {} /\ missing = {}
    /\ peer = NoPeer

Init ==
    /\ freeUdp \in SUBSET UdpUniverse
    /\ port80 \in {"free", "nginx", "other"}
    /\ liveDirs \in SUBSET {LiveDir(d, x) : d \in Domains, x \in StaleSuffixes}
    /\ certbot \in BOOLEAN
    /\ NothingInstalled
    /\ NoRun
    /\ ex = NoExport

Next ==
    \/ StartRun
    \/ ValidatePort
    \/ ValidateDomain
    \/ CertCheck
    \/ CertPreHook
    \/ CertRun
    \/ CertPostHook
    \/ InitProject
    \/ FinalizePort
    \/ ReadPort
    \/ BuildUnit
    \/ DownloadServer
    \/ WriteServerConfig
    \/ StartService
    \/ PollStatus
    \/ GenClients
    \/ Parse
    \/ ResetShell
    \/ RemoveAlias
    \/ CertRemove
    \/ ServiceRemove
    \/ CertbotDeleteExit
    \/ EnvBind
    \/ EnvRelease

Spec == Init /\ [][Next]_vars

(***************************************************************************)
(* The exporters taken alone: a canonical model is drawn, the ServerConfig *)
(* and its ClientRelay are built as install and gen_clients build them,    *)
(* and the three from_server methods are applied to the one ClientRelay    *)
(* object, in any order.                                                   *)
(***************************************************************************)
ExportDomains == {"relay.example.com", "b.example.org"}
ExportIPs == {None, Some("203.0.113.7"), Some("")}
ExportPorts == {443, 49152, 59151}
ExportTunables ==
    { [ServerDefaults EXCEPT !.congestion_control = cc, !.alpn = al,
                             !.zero_rtt_handshake = z]
        : cc \in {"cubic", "new_reno", "bbr"}, al \in {<<>>, <<"h3">>}, z \in BOOLEAN }

ExportInit ==
    /\ freeUdp = UdpUniverse /\ port80 = "free" /\ liveDirs = {} /\ certbot = FALSE
    /\ NothingInstalled
    /\ NoRun
    /\ \E d \in ExportDomains, sip \in ExportIPs, sp \in ExportPorts, n \in 1..2,
          t \in ExportTunables :
         ex = [ stage |-> "input", domain |-> d, server_ip |-> sip, server_port |-> sp,
                user |-> gen_user(n), tunables |-> t, sc |-> Absent, relay |-> Absent,
                relay0 |-> Absent, nekoray |-> Absent, meta |-> Absent,
                singbox |-> Absent ]

\* install lines 1017-1019 and gen_clients line 846
ExBuild ==
    /\ ex.stage = "input"
    /\ LET sc == ServerConfig(<<"[::]", ":">> \o IntStr(ex.server_port),
                              (ex.user.username :> ex.user.password),
                              cert_fullchain(ex.domain), cert_privkey(ex.domain),
                              ex.tunables)
           relay == copy_from_server(ex.domain, ex.user, sc, ex.server_port)
       IN ex' = [ex EXCEPT !.stage = "built", !.sc = sc, !.relay = relay,
                           !.relay0 = relay]
    /\ UNCHANGED <<hostVars, runVars, peer>>

\* gen_clients line 850
ExNekoRay ==
    /\ ex.stage = "built" /\ ex.nekoray = Absent
    /\ ex' = [ex EXCEPT
                !.nekoray = nekoray_from_server(ex.relay, ex.domain, ex.server_port,
                                                ex.server_ip),
                !.relay = nekoray_relay_after(ex.relay, ex.domain, ex.server_port,
                                              ex.server_ip)]
    /\ UNCHANGED <<hostVars, runVars, peer>>

\* gen_clients line 855
ExClashMeta ==
    /\ ex.stage = "built" /\ ex.meta = Absent
    /\ ex' = [ex EXCEPT
                !.meta = clash_from_server(ex.relay, ex.domain, ex.server_port,
                                           ex.server_ip)]
    /\ UNCHANGED <<hostVars, runVars, peer>>

\* gen_clients line 860
ExSingBox ==
    /\ ex.stage = "built" /\ ex.singbox = Absent
    /\ ex' = [ex EXCEPT
                !.singbox = singbox_from_server(ex.relay, ex.domain, ex.server_port,
                                                ex.server_ip)]
    /\ UNCHANGED <<hostVars, runVars, peer>>

ExportNext == ExBuild \/ ExNekoRay \/ ExClashMeta \/ ExSingBox

SpecExport == ExportInit /\ [][ExportNext]_vars

(***************************************************************************)
(*                              The claims                                 *)
(***************************************************************************)
ThisRunDidOnly(ops) == \A o \in Ops \ ops : did[o] = 0

\* the port the persisted ServerConfig listens on: "[::]:<port>"
ListenPort(sc) == StrInt(Split(sc.server, ":")[2])
NekoRayHost(n) == serv_peer(n)[1]
NekoRayPort(n) == StrInt(serv_peer(n)[2])
MetaPort(m) == StrInt(m.proxy.port)

(***************************************************************************)
(* C1.  The step that runs _validate_port on params.port: with no port     *)
(* requested it returns None and probes nothing; with p <= 49151 the       *)
(* process exits and nothing is probed; with p > 49151 and p bindable on   *)
(* UDP at that moment it returns exactly p.                                *)
(***************************************************************************)
C1_ValidatePortContract ==
    [][ (pc = "validate_port" /\ pc' # "validate_port") =>
          /\ (reqPort' = None =>
                /\ pc' = "validate_domain" /\ port' = None
                /\ did'["probe_requested"] = 0)
          /\ (reqPort' # None /\ reqPort'[1] <= 49151 =>
                /\ pc' = "done" /\ exit' = "sys_exit"
                /\ did'["probe_requested"] = 0)
          /\ (reqPort' # None /\ reqPort'[1] > 49151 /\ reqPort'[1] \in freeUdp =>
                /\ pc' = "validate_domain" /\ port' = reqPort' /\ exit' = "running")
      ]_vars

C1_Witness ==
    /\ cmd = "install" /\ pc = "validate_domain"
    /\ reqPort = Some(49152) /\ port = Some(49152)

(***************************************************************************)
(* C2.  An install whose port request is rejected (at most 49151, or not   *)
(* bindable on UDP at that moment) ends at that step: the host is left as  *)
(* it was and the run has made no network call and no file, certificate or *)
(* service operation.                                                      *)
(***************************************************************************)
C2_RejectedPortNoEffects ==
    [][ ( /\ pc = "validate_port" /\ pc' # "validate_port"
          /\ reqPort' # None
          /\ (reqPort'[1] <= 49151 \/ reqPort'[1] \notin freeUdp) ) =>
          /\ pc' = "done" /\ exit' \in {"sys_exit", "raised"}
          /\ UNCHANGED hostVars
          /\ \A o \in Ops \ {"probe_requested"} : did'[o] = 0
      ]_vars

C2_Witness ==
    /\ cmd = "install" /\ pc = "done" /\ exit = "sys_exit"
    /\ reqPort = Some(80) /\ port = None
    /\ ThisRunDidOnly({})

(***************************************************************************)
(* C3 as stated: a port the accessor allocated lies in [49152, 59151).     *)
(***************************************************************************)
C3_AllocatedBelow59151 ==
    (cmd = "install" /\ port = None /\ project_port >= 0)
        => project_port \in 49152 .. 59150

(***************************************************************************)
(* C3, amended.  Whenever a read of the accessor with no port set stores a *)
(* port, that port lies in [49152, 59152), that is 49152..59151, and was   *)
(* bindable on UDP (the probe _validate_port uses) at that read.           *)
(***************************************************************************)
C3_AllocatedInRangeAndFree ==
    [][ (project_port < 0 /\ project_port' >= 0 /\ port = None) =>
          /\ project_port' \in 49152 .. 59151
          /\ project_port' \in freeUdp
      ]_vars

C3_Witness ==
    /\ cmd = "install" /\ port = None /\ project_port = 59151
    /\ 59152 \in freeUdp /\ 49151 \in freeUdp

(***************************************************************************)
(* C4 as stated: when no candidate port passes the probe, install goes no  *)
(* further: no unit is registered, no ServerConfig written and no service  *)
(* started while the port is the unallocated value.                        *)
(***************************************************************************)
C4_ExhaustionIsFatal ==
    (cmd = "install" /\ pc \notin {"validate_port", "validate_domain", "cert_check",
                                    "cert_pre", "cert_run", "cert_post", "project",
                                    "finalize_port", "read_port", "done"})
        => /\ server_port >= 0
           /\ (did["write_config"] > 0 => ListenPort(serverConfigFile) >= 0)

(***************************************************************************)
(* C5.  Within one run, once _server_port holds a port it never changes    *)
(* and no later read allocates; and when line 1005 read a port, the listen *)
(* port of the ServerConfig this run persisted and the port of each client *)
(* artifact this run wrote are that port.                                  *)
(***************************************************************************)
C5_PortDecisionCached ==
    /\ [][ (runs' = runs /\ project_port >= 0) =>
             /\ project_port' = project_port
             /\ did'["allocate"] = did["allocate"] ]_vars
    /\ []( (cmd = "install" /\ server_port >= 0) =>
             /\ project_port = server_port
             /\ (did["write_config"] > 0 =>
                   ListenPort(serverConfigFile) = server_port)
             /\ (did["write_nekoray"] > 0 =>
                   /\ NekoRayPort(nekorayFile) = server_port
                   /\ MetaPort(metaFile) = server_port
                   /\ singboxFile.server_port = server_port) )

C5_Witness ==
    /\ cmd = "install" /\ reqPort = None /\ server_port = 59151
    /\ did["write_nekoray"] > 0 /\ did["write_config"] > 0
    /\ {49152, 59151} \subseteq freeUdp

(***************************************************************************)
(* C6.  In install and in remove, when the domain does not resolve or the  *)
(* resolved address differs from the public address, the run is over at    *)
(* that step, the step changed nothing on the host, and the run has done   *)
(* nothing but the lookups (and, in install, the probe of a requested      *)
(* port).                                                                  *)
(***************************************************************************)
DomainRejected ==
    \/ dns.resolved = "gaierror"
    \/ (dns.resolved # "" /\ dns.mine # dns.resolved)

C6_DomainMismatchNoEffects ==
    /\ []( DomainRejected =>
             /\ pc = "done" /\ exit \in {"sys_exit", "raised"}
             /\ ThisRunDidOnly({"dns", "public_ip", "probe_requested"}) )
    /\ [][ (~DomainRejected /\ DomainRejected') => UNCHANGED hostVars ]_vars

C6_Witness ==
    /\ cmd = "remove" /\ pc = "done"
    /\ dns = [resolved |-> "203.0.113.7", mine |-> "198.51.100.9"]

(***************************************************************************)
(* C7 as stated: once CertBot.run() has invoked the certificate tool and   *)
(* the issuance step is over, whether by return or by an exception, the    *)
(* post-hook has run exactly once.                                         *)
(***************************************************************************)
C7_PostHookOnEveryExit ==
    (did["certbot"] > 0 /\ pc \notin {"cert_run", "cert_post"})
        => did["post_hook"] = 1

(***************************************************************************)
(* C8.  After a rate-limited issuance the run ends by sys.exit in the      *)
(* post-hook, after the post-hook's revive step ran if this run's pre-hook *)
(* had stopped port 80 (an nginx it stopped is running again, the flag is  *)
(* cleared); that step does not enable the renewal timer, and the run      *)
(* performs no later install step.                                         *)
(***************************************************************************)
LaterInstallOps ==
    {"timer", "mkdir", "set_alias", "allocate", "write_unit", "download", "chmod",
     "svc_stop", "write_config", "svc_start", "svc_status", "write_nekoray",
     "write_meta", "write_singbox", "print", "reset_shell"}

IssuanceOps == {"pre_hook", "purge", "apt", "stop80", "certbot", "post_hook",
                "revive80", "timer"}

C9_ExistingBundleSkipsIssuance ==
    /\ [][ ( /\ cmd = "install" /\ runs' = runs
             /\ domain # "" /\ domain \in fullchain /\ did["pre_hook"] = 0 ) =>
             /\ \A o \in IssuanceOps : did'[o] = 0
             /\ (pc = "cert_check" => pc' = "project") ]_vars
    /\ []( (cmd = "install" /\ did["write_config"] > 0) =>
             /\ serverConfigFile.certificate = cert_fullchain(domain)
             /\ serverConfigFile.private_key = cert_privkey(domain) )

C9_Witness ==
    /\ runs = 2 /\ cmd = "install" /\ did["write_config"] > 0
    /\ domain \in fullchain /\ ThisRunDidOnly(Ops \ IssuanceOps)

(***************************************************************************)
(* C10 as stated: once the three exporters have run on a canonical model,  *)
(* the server, port, uuid, password, congestion control and ALPN of the    *)
(* three artifacts agree with each other and with the ServerConfig.        *)
(***************************************************************************)
C10_SharedFieldsIdentical ==
    (ex.stage = "built" /\ ex.nekoray # Absent /\ ex.meta # Absent /\ ex.singbox # Absent)
        => /\ NekoRayHost(ex.nekoray) = <<ex.meta.proxy.server>>
           /\ ex.meta.proxy.server = ex.singbox.server
           /\ NekoRayPort(ex.nekoray) = ListenPort(ex.sc)
           /\ MetaPort(ex.meta) = ListenPort(ex.sc)
           /\ ex.singbox.server_port = ListenPort(ex.sc)
           /\ \A a \in {ex.nekoray.relay, ex.meta.proxy, ex.singbox} :
                 /\ a.uuid \in DOMAIN ex.sc.users
                 /\ a.password = ex.sc.users[a.uuid]
           /\ ex.nekoray.relay.congestion_control = ex.sc.congestion_control
           /\ ex.meta.proxy.congestion_controller = ex.sc.congestion_control
           /\ ex.singbox.congestion_control = ex.sc.congestion_control
           /\ ex.nekoray.relay.alpn = ex.sc.alpn
           /\ ex.meta.proxy.alpn = ex.sc.alpn
           /\ ex.singbox.tls.alpn = ex.sc.alpn

(***************************************************************************)
(* C11 as stated: the relay copy_from_server returns holds, for every      *)
(* field it shares with the ServerConfig (alpn, congestion_control,        *)
(* zero_rtt_handshake, send_window, receive_window, gc_interval,           *)
(* gc_lifetime, the credential and the port), the value the ServerConfig   *)
(* holds.                                                                  *)
(***************************************************************************)
C11_RelayCopiesSharedFields ==
    (ex.stage = "built")
        => /\ ex.relay0.alpn = ex.sc.alpn
           /\ ex.relay0.congestion_control = ex.sc.congestion_control
           /\ ex.relay0.zero_rtt_handshake = ex.sc.zero_rtt_handshake
           /\ ex.relay0.send_window = ex.sc.send_window
           /\ ex.relay0.receive_window = ex.sc.receive_window
           /\ ex.relay0.gc_interval = ex.sc.gc_interval
           /\ ex.relay0.gc_lifetime = ex.sc.gc_lifetime
           /\ ex.relay0.uuid \in DOMAIN ex.sc.users
           /\ ex.relay0.password = ex.sc.users[ex.relay0.uuid]
           /\ StrInt(Split(ex.relay0.server, ":")[2]) = ListenPort(ex.sc)

(***************************************************************************)
(* C12.  In install the poll of the service status decides: when the       *)
(* service is active the run goes on to gen_clients; otherwise the failure *)
(* is logged, the run returns normally at that step, and no client         *)
(* artifact is written or printed by the run.  An install run that wrote   *)
(* an artifact or printed a view has polled and has logged no failure.     *)
(***************************************************************************)
ArtifactOps == {"write_nekoray", "write_meta", "write_singbox"}

C12_ArtifactsOnlyWhenActive ==
    /\ [][ (cmd = "install" /\ pc = "status" /\ pc' # "status") =>
             IF svcActive
             THEN pc' = "gen_clients" /\ exit' = "running"
             ELSE /\ pc' = "done" /\ exit' = "returned"
                  /\ did'["log_start_failure"] = 1
                  /\ UNCHANGED <<nekorayFile, metaFile, singboxFile, printed>>
       ]_vars
    /\ []( (cmd = "install" /\ \E o \in ArtifactOps \cup {"print"} : did[o] > 0) =>
             /\ did["svc_status"] = 1
             /\ did["log_start_failure"] = 0 )
    /\ []( (cmd = "install" /\ did["log_start_failure"] > 0) =>
             /\ pc = "done" /\ exit = "returned"
             /\ \A o \in ArtifactOps \cup {"print", "reset_shell"} : did[o] = 0
             /\ printed = {} )

C12_Witness ==
    /\ cmd = "install" /\ pc = "done" /\ exit = "returned"
    /\ did["svc_start"] = 1 /\ did["log_start_failure"] = 1
    /\ ~svcActive /\ nekorayFile = Absent

(***************************************************************************)
(* C13.  An install run goes through its steps in the order validate port, *)
(* validate domain, certificate issuance or skip, project and port,        *)
(* unit, download, ServerConfig, start, poll, artifacts, print: each       *)
(* effect happens only at its own step, a run moves from a step only to    *)
(* the next one (or ends), and an effect of a later step implies that      *)
(* every earlier mandatory step has had its effect; in particular the      *)
(* service is started only after the ServerConfig was persisted and an     *)
(* artifact is written only after the service was started and polled.      *)
(***************************************************************************)
InstallOrder ==
    <<"validate_port", "validate_domain", "cert_check", "cert_pre", "cert_run",
      "cert_post", "project", "finalize_port", "read_port", "build_unit", "download",
      "write_config", "start", "status", "gen_clients", "parse", "reset_shell">>

Rank ==
    [ p \in {InstallOrder[i] : i \in 1..Len(InstallOrder)} |->
        CHOOSE i \in 1..Len(InstallOrder) : InstallOrder[i] = p ]

\* the step at which install performs each effect
OpStep ==
    [ o \in {"probe_requested", "dns", "public_ip", "pre_hook", "certbot", "post_hook",
             "mkdir", "write_unit", "download", "chmod", "write_config", "svc_start",
             "svc_status", "write_nekoray", "write_meta", "write_singbox", "print",
             "reset_shell"} |->
        CASE o = "probe_requested" -> "validate_port"
          [] o \in {"dns", "public_ip"} -> "validate_domain"
          [] o = "pre_hook" -> "cert_pre"
          [] o = "certbot" -> "cert_run"
          [] o = "post_hook" -> "cert_post"
          [] o = "mkdir" -> "project"
          [] o = "write_unit" -> "build_unit"
          [] o \in {"download", "chmod"} -> "download"
          [] o = "write_config" -> "write_config"
          [] o = "svc_start" -> "start"
          [] o = "svc_status" -> "status"
          [] o \in {"write_nekoray", "write_meta", "write_singbox"} -> "gen_clients"
          [] o = "print" -> "parse"
          [] o = "reset_shell" -> "reset_shell" ]

\* the effects every install run that gets past their step has performed
MandatoryOps ==
    {"dns", "public_ip", "mkdir", "write_unit", "chmod", "write_config", "svc_start",
     "svc_status", "write_nekoray", "write_meta", "write_singbox", "print"}

\* <<a, b>>: mandatory effect a belongs to an earlier step than effect b
EarlierOp ==
    {x \in MandatoryOps \X DOMAIN OpStep : Rank[OpStep[x[1]]] < Rank[OpStep[x[2]]]}

C13_InstallStepOrder ==
    /\ [][ (cmd = "install" /\ runs' = runs /\ did' # did) =>
             \A o \in DOMAIN OpStep : did'[o] > did[o] => pc = OpStep[o] ]_vars
    /\ [][ (cmd = "install" /\ runs' = runs /\ pc' # pc) =>
             \/ pc' = "done"
             \/ Rank[pc'] = Rank[pc] + 1
             \/ (pc = "cert_check" /\ pc' = "project") ]_vars
    /\ []( cmd = "install" =>
             /\ \A x \in EarlierOp : did[x[2]] > 0 => did[x[1]] > 0
             /\ \A a \in MandatoryOps :
                   (pc # "done" /\ Rank[OpStep[a]] < Rank[pc]) => did[a] > 0
             /\ (did["mkdir"] > 0 =>
                   \/ (did["pre_hook"] = 0 /\ domain \in fullchain)
                   \/ did["post_hook"] = 1)
             /\ (did["svc_start"] > 0 =>
                   /\ serverConfigFile # Absent /\ serverConfigFile = server_config
                   /\ executable = "exec" /\ unitFile)
             /\ (did["write_nekoray"] > 0 => svcEnabled) )

C13_Witness ==
    /\ cmd = "install" /\ pc = "done" /\ exit = "execl"
    /\ did["certbot"] = 1 /\ did["post_hook"] = 1 /\ reqPort = Some(49152)
    /\ \A a \in MandatoryOps : did[a] > 0

(***************************************************************************)
(* C14.  When install stops at a failing step (the post-hook after a       *)
(* rate-limited issuance, the poll that finds the service not active) the  *)
(* run is over, that step leaves the bundles, the unit file, the           *)
(* executable, the persisted ServerConfig and the enabled service as they  *)
(* were, and no step of an install run ever removes one of them; a run     *)
(* stopped at the poll leaves unit, executable, ServerConfig and           *)
(* enablement in place and has run no later step.                          *)
(***************************************************************************)
FailingStep ==
    \/ (pc = "cert_post" /\ ~is_success)
    \/ (pc = "status" /\ ~svcActive)

C14_NoRollbackOnFailure ==
    /\ [][ (cmd = "install" /\ FailingStep) =>
             /\ pc' = "done"
             /\ UNCHANGED <<fullchain, liveDirs, unitFile, executable, serverConfigFile,
                            svcEnabled, workstation, alias, timer>> ]_vars
    /\ [][ (cmd = "install" /\ runs' = runs) =>
             /\ fullchain \subseteq fullchain'
             /\ (unitFile => unitFile')
             /\ (executable = "exec" => executable' = "exec")
             /\ (serverConfigFile # Absent => serverConfigFile' # Absent)
             /\ (svcEnabled => svcEnabled')
             /\ (workstation => workstation') ]_vars
    /\ []( (cmd = "install" /\ did["log_start_failure"] > 0) =>
             /\ pc = "done"
             /\ unitFile /\ executable = "exec" /\ svcEnabled /\ workstation
             /\ serverConfigFile = server_config /\ server_config # Absent
             /\ (did["pre_hook"] = 0 => domain \in fullchain)
             /\ \A o \in ArtifactOps \cup {"print", "reset_shell"} : did[o] = 0 )

C14_Witness ==
    /\ cmd = "install" /\ pc = "done" /\ exit = "returned"
    /\ did["certbot"] = 1 /\ domain \in fullchain
    /\ did["log_start_failure"] = 1 /\ unitFile /\ svcEnabled /\ ~svcActive
    /\ serverConfigFile = server_config

(***************************************************************************)
(* C15 as stated: a remove run on a host where nothing was ever installed  *)
(* (first run, no bundle, no live directory, no unit, no workstation, no   *)
(* alias), once it has reached the certificate removal, raises nothing     *)
(* and goes through every removal step.                                    *)
(***************************************************************************)
C15_RemoveOnFreshHostCompletes ==
    (runs = 1 /\ cmd = "remove" /\ liveDirs = {} /\ did["certbot_delete"] > 0)
        => /\ exit # "raised"
           /\ (pc = "done" => /\ exit = "execl"
                              /\ did["svc_disable"] = 1 /\ did["pkill"] = 1
                              /\ did["rm_workstation"] = 1)

(***************************************************************************)
(* C16 as stated: when CertBot.remove has removed the certificate          *)
(* directory, the delete operation of the certificate tool that it started *)
(* has finished, and the domain's directory is absent.                     *)
(***************************************************************************)
C16_DeleteFinishedBeforeRmtree ==
    (cmd = "remove" /\ did["rm_cert_dir"] > 0)
        => /\ ~certbotDeleting
           /\ LiveDir(domain, NoSuffix) \notin liveDirs /\ domain \notin fullchain

(***************************************************************************)
(* C17.  Once a remove run has gone through Service.remove, and so when it *)
(* completes, the unit is disabled and stopped, the unit file does not     *)
(* exist, and the workstation directory, the executable, the persisted     *)
(* ServerConfig and the three client artifacts do not exist.               *)
(***************************************************************************)
C17_RemoveLeavesNothing ==
    /\ []( (cmd = "remove" /\ did["rm_workstation"] > 0) =>
             /\ ~svcEnabled /\ ~svcActive /\ ~unitFile
             /\ ~workstation /\ executable = "absent"
             /\ serverConfigFile = Absent /\ nekorayFile = Absent
             /\ metaFile = Absent /\ singboxFile = Absent )
    /\ []( (cmd = "remove" /\ pc = "done" /\ exit = "execl") =>
             /\ did["rm_workstation"] = 1 /\ did["svc_disable"] = 1 /\ did["pkill"] = 1 )

C17_Witness ==
    /\ runs = 2 /\ cmd = "remove" /\ pc = "done" /\ exit = "execl"
    /\ did["rm_unit"] = 1 /\ ~unitFile /\ ~workstation /\ ~svcEnabled

(***************************************************************************)
(* The check workflow taken alone: the three client files are each present *)
(* or missing when `check` is run (a user may have deleted any of them);   *)
(* Scaffold.check makes the Project and calls Template.parse.              *)
(***************************************************************************)
SampleArtifacts ==
    LET d == "relay.example.com"
        u == gen_user(1)
        sc == from_automation(u, cert_fullchain(d), cert_privkey(d), RandLo)
        relay0 == copy_from_server(d, u, sc, RandLo)
        sip == Some("203.0.113.7")
        relay1 == nekoray_relay_after(relay0, d, RandLo, sip)
    IN [ nekoray |-> nekoray_from_server(relay0, d, RandLo, sip),
         clash |-> clash_from_server(relay1, d, RandLo, sip),
         singbox |-> singbox_from_server(relay1, d, RandLo, sip) ]

CheckInit ==
    /\ freeUdp = UdpUniverse /\ port80 = "free" /\ liveDirs = {} /\ certbot = FALSE
    /\ stopped80 = "free" /\ fullchain = {} /\ certbotDeleting = FALSE /\ timer = FALSE
    /\ alias = FALSE /\ unitFile = FALSE /\ executable = "absent"
    /\ serverConfigFile = Absent /\ svcEnabled = FALSE /\ svcActive = FALSE
    /\ nekorayFile \in {Absent, SampleArtifacts.nekoray}
    /\ metaFile \in {Absent, SampleArtifacts.clash}
    /\ singboxFile \in {Absent, SampleArtifacts.singbox}
    /\ workstation = (nekorayFile # Absent \/ metaFile # Absent \/ singboxFile # Absent)
    /\ NoRun
    /\ ex = NoExport

\* run() dispatching to Scaffold.check
StartCheck == StartRun /\ cmd' = "check"

CheckNext == StartCheck \/ Parse

SpecCheck == CheckInit /\ [][CheckNext]_vars

AllViews == {"nekoray", "clash", "singbox"}
\* the views asked for by the flags: the flagged ones, all three with no flag
RequestedViews(f) ==
    IF ~(f.nekoray \/ f.clash \/ f.singbox) THEN AllViews
    ELSE {v \in AllViews : f[v]}
MissingFiles ==
    {v \in AllViews : CASE v = "nekoray" -> nekorayFile = Absent
                        [] v = "clash" -> metaFile = Absent
                        [] v = "singbox" -> singboxFile = Absent}
AtMostOneFlag(f) == \A v, w \in AllViews : (f[v] /\ f[w]) => v = w

(***************************************************************************)
(* C18 as stated: a finished check (with no flag, or one flag) has raised  *)
(* nothing, has reported exactly the requested artifacts that are missing  *)
(* and has printed exactly the requested artifacts that are present.       *)
(***************************************************************************)
C18_MissingArtifactsReported ==
    (cmd = "check" /\ pc = "done" /\ ~flags.v2ray /\ AtMostOneFlag(flags))
        => /\ exit # "raised"
           /\ missing = RequestedViews(flags) \cap MissingFiles
           /\ printed = RequestedViews(flags) \ MissingFiles

(***************************************************************************)
(* C19 as stated: the views Template.parse has printed in an install run   *)
(* (where all three files were just written) are exactly the requested     *)
(* ones, for every combination of the nekoray, clash and singbox flags.    *)
(***************************************************************************)
C19_PrintedEqualsRequested ==
    (cmd = "install" /\ did["print"] > 0 /\ ~flags.v2ray)
        => printed = RequestedViews(flags)

(***************************************************************************)
(* C20 as stated: while a deployment exists (a ServerConfig is persisted   *)
(* and no remove has deleted it), no step replaces the persisted           *)
(* credential by another one.                                              *)
(***************************************************************************)
C20_CredentialNeverRegenerated ==
    [][ (serverConfigFile # Absent /\ serverConfigFile' # Absent) =>
          serverConfigFile'.users = serverConfigFile.users ]_vars

(***************************************************************************)
(* C21 as stated: while install is in download_server every step of it is  *)
(* one attempt: a failed one stops the service, grants nothing and stays   *)
(* in download_server; a successful one marks the file executable and      *)
(* returns.  The service is stopped once per failed attempt and never      *)
(* otherwise, the file is marked executable exactly once and only by the   *)
(* successful attempt, and as long as attempts fail download_server        *)
(* neither returns nor ends in an error.                                   *)
(***************************************************************************)
C21_DownloadNeverSurfacesError ==
    /\ [][ (pc = "download" /\ <<pc, did>>' # <<pc, did>>) =>
             \/ /\ pc' = "download" /\ exit' = "running"
                /\ did'["download"] = did["download"] + 1
                /\ did'["svc_stop"] = did["svc_stop"] + 1
                /\ did'["chmod"] = did["chmod"]
                /\ ~svcActive' /\ executable' = executable
             \/ /\ pc' = "write_config" /\ exit' = "running"
                /\ did'["download"] = did["download"] + 1
                /\ did'["svc_stop"] = did["svc_stop"]
                /\ did'["chmod"] = did["chmod"] + 1
                /\ svcActive' = svcActive /\ executable' = "exec" ]_vars
    /\ [][ (pc # "download" /\ runs' = runs) =>
             /\ did'["svc_stop"] = did["svc_stop"]
             /\ did'["chmod"] = did["chmod"]
             /\ did'["download"] = did["download"] ]_vars
    /\ []( /\ did["chmod"] <= 1
           /\ did["svc_stop"] = did["download"] - did["chmod"]
           /\ (pc = "download" => (exit = "running" /\ did["chmod"] = 0))
           /\ (did["write_config"] > 0 => did["chmod"] = 1) )

(***************************************************************************)
(* C22 as stated: each exporter leaves the ClientRelay it was given as it  *)
(* was, so whichever exporters have already run, the relay is still the    *)
(* one copy_from_server returned and each artifact is what its exporter    *)
(* gives on that relay.                                                    *)
(***************************************************************************)
C22_ExportersLeaveRelayUnchanged ==
    (ex.stage = "built")
        => /\ ex.relay = ex.relay0
           /\ (ex.nekoray # Absent =>
                 ex.nekoray = nekoray_from_server(ex.relay0, ex.domain, ex.server_port,
                                                  ex.server_ip))
           /\ (ex.meta # Absent =>
                 ex.meta = clash_from_server(ex.relay0, ex.domain, ex.server_port,
                                             ex.server_ip))
           /\ (ex.singbox # Absent =>
                 ex.singbox = singbox_from_server(ex.relay0, ex.domain, ex.server_port,
                                                  ex.server_ip))

(***************************************************************************)
(* C23 as stated: an install run that has enabled the renewal timer has    *)
(* been through the request (pre-hook, certificate tool, post-hook, in     *)
(* that order) and the request produced the domain's bundle; a run whose   *)
(* request ended without a bundle, by the rate limit or otherwise, never   *)
(* enables the timer.                                                      *)
(***************************************************************************)
C23_TimerOnlyAfterIssued ==
    (cmd = "install" /\ did["timer"] > 0)
        => /\ did["pre_hook"] = 1 /\ did["certbot"] = 1 /\ did["post_hook"] = 1
           /\ is_success
           /\ domain \in fullchain

(***************************************************************************)
(* C24 as stated: in an install run the revive step is executed at most    *)
(* once and only when the pre-hook stopped the holder of port 80; once     *)
(* CertBot.run() is over, however it ended, the revive step has been       *)
(* executed if the pre-hook stopped the holder; a run ended by the rate    *)
(* limit has revived first; and after the post-hook the obligation flag    *)
(* is cleared.                                                             *)
(***************************************************************************)
C24_ReviveIffStopped ==
    (cmd = "install")
        => /\ did["revive80"] <= 1
           /\ did["revive80"] <= did["stop80"]
           /\ (did["post_hook"] > 0 => ~should_revive)
           /\ ((~is_success /\ exit = "sys_exit") => did["revive80"] = did["stop80"])
           /\ ((did["pre_hook"] > 0 /\ pc \notin {"cert_run", "cert_post"})
                 => did["revive80"] = did["stop80"])

(***************************************************************************)
(* The pre-hook's purge taken alone: install is run up to the pre-hook on  *)
(* hosts whose /etc/letsencrypt/live holds any subset of a sample of       *)
(* names: the domain's own directory (without fullchain.pem, or the        *)
(* pre-hook would not run), the domain with a '-' suffix, the domain with  *)
(* another continuation, and another domain with and without a suffix.     *)
(***************************************************************************)
SampleLiveNames ==
    {LiveDir(d, x) : d \in Domains \cup {"other.example.org"},
                     x \in {NoSuffix, <<"-", "0001">>, <<"-", "0002">>}}
        \cup {LiveDir(d, <<".", "au">>) : d \in Domains}

PreHookInit ==
    /\ freeUdp = UdpUniverse
    /\ port80 \in {"free", "nginx", "other"}
    /\ liveDirs \in SUBSET SampleLiveNames
    /\ certbot \in BOOLEAN
    /\ NothingInstalled
    /\ NoRun
    /\ ex = NoExport

StartInstall == StartRun /\ cmd' = "install"

PreHookNext ==
    \/ StartInstall
    \/ ValidatePort
    \/ ValidateDomain
    \/ CertCheck
    \/ CertPreHook

SpecPreHook == PreHookInit /\ [][PreHookNext]_vars

(***************************************************************************)
(* C25.  The pre-hook step never removes the directory named exactly after *)
(* the domain; what it removes are entries whose name is the domain        *)
(* followed by '-' and more; and when the domain's own directory exists it *)
(* removes nothing.  It adds nothing either.                               *)
(***************************************************************************)
C25_PurgeSparesOwnDirectory ==
    [][ (pc = "cert_pre" /\ pc' # "cert_pre") =>
          /\ liveDirs' \subseteq liveDirs
          /\ (<<domain>> \in liveDirs => liveDirs' = liveDirs)
          /\ \A k \in liveDirs \ liveDirs' :
                /\ k # <<domain>>
                /\ Len(k) > 2 /\ k[1] = domain /\ k[2] = "-"
          /\ (did'["purge"] > 0 <=> liveDirs' # liveDirs)
      ]_vars

C25_Witness ==
    /\ cmd = "install" /\ pc = "cert_run" /\ did["purge"] = 1
    /\ liveDirs = {<<domain, ".", "au">>, <<"other.example.org", "-", "0001">>}

(***************************************************************************)
(* C26 as stated: the outcome status() returned to install is the success  *)
(* value exactly when the service manager answered "active", and an answer *)
(* of another of the three kinds (active, inactive, anything else) would   *)
(* have given a different outcome value.                                   *)
(***************************************************************************)
StatusTexts == {"active", "inactive", "failed"}

StatusKind(text) ==
    IF text \in {"active", "inactive"} THEN text ELSE "indeterminate"

C26_StatusTriState ==
    \A t \in StatusTexts :
        (polled # NotPolled /\ polled = status(t)) =>
            /\ Len(polled) = 2
            /\ (polled[1] = Some(TRUE) <=> t = "active")
            /\ \A u \in StatusTexts :
                  StatusKind(u) # StatusKind(t) => status(u)[1] # polled[1]

(***************************************************************************)
(* Two installer processes on one host.  The second process runs the same  *)
(* install; of its steps the model keeps the two that touch what the       *)
(* processes share: its port decision (lines 982 and 1004-1005: a          *)
(* requested port that passes _validate_port, or a read of the allocating  *)
(* accessor) and its write of the server config (lines 997-1020).  The     *)
(* host already holds the domain's bundle, so neither process requests a   *)
(* certificate, and the first process is followed up to Service.start.     *)
(***************************************************************************)
PeerChoosePort ==
    /\ peer.pc = "off"
    /\ \E p \in RequestedPorts :
         IF p # None
         THEN /\ validate_port(p).kind = "return"
              /\ peer' = [pc |-> "chosen", port |-> p[1]]
         ELSE \E q \in server_port_get(DefaultServerPort) :
                 peer' = [pc |-> "chosen", port |-> q]
    /\ UNCHANGED <<hostVars, runVars, ex>>

PeerWriteConfig ==
    /\ peer.pc = "chosen"
    /\ workstation' = TRUE
    /\ \E d \in Domains :
         serverConfigFile' = from_automation(gen_user(0), cert_fullchain(d),
                                             cert_privkey(d), peer.port)
    /\ peer' = [peer EXCEPT !.pc = "wrote"]
    /\ UNCHANGED <<freeUdp, port80, stopped80, liveDirs, fullchain, timer, certbot,
                   certbotDeleting, alias, unitFile, executable, nekorayFile, metaFile,
                   singboxFile, svcEnabled, svcActive>>
    /\ UNCHANGED <<runVars, ex>>

RaceInit ==
    /\ freeUdp \in SUBSET UdpUniverse
    /\ port80 = "free" /\ stopped80 = "free"
    /\ liveDirs = {LiveDir(d, NoSuffix) : d \in Domains}
    /\ fullchain = Domains
    /\ certbot = TRUE /\ certbotDeleting = FALSE /\ timer = TRUE
    /\ workstation = FALSE /\ alias = FALSE /\ unitFile = FALSE
    /\ executable = "absent"
    /\ serverConfigFile = Absent /\ nekorayFile = Absent
    /\ metaFile = Absent /\ singboxFile = Absent
    /\ svcEnabled = FALSE /\ svcActive = FALSE
    /\ NoRun
    /\ ex = NoExport

RaceNext ==
    \/ StartInstall
    \/ ValidatePort
    \/ ValidateDomain
    \/ CertCheck
    \/ InitProject
    \/ FinalizePort
    \/ ReadPort
    \/ BuildUnit
    \/ DownloadServer
    \/ WriteServerConfig
    \/ StartService
    \/ PeerChoosePort
    \/ PeerWriteConfig
    \/ EnvBind
    \/ EnvRelease

SpecRace == RaceInit /\ [][RaceNext]_vars

\* the port the first process has decided on, once it has
ChosenPort == IF port # None THEN port[1] ELSE project_port

(***************************************************************************)
(* C27.  No step of either installer process changes which ports can be    *)
(* bound: a probe leaves the port as free as it found it.  While the first *)
(* process is between its port decision and Service.start, another process *)
(* is able to bind a free port, the chosen one included, and the second    *)
(* installer is able to decide on a port that is still free, the chosen    *)
(* one included; and each process's write of the server config is able to  *)
(* go ahead whatever the other has done.                                   *)
(***************************************************************************)
C27_ProbeReservesNothing ==
    /\ [][ (pc' # pc \/ did' # did \/ peer' # peer) => freeUdp' = freeUdp ]_vars
    /\ [][ (peer.pc = "off" /\ peer'.pc = "chosen" /\ peer'.port >= 0) =>
             peer'.port \in freeUdp ]_vars
    /\ []( (pc \in {"finalize_port", "read_port"} /\ freeUdp # {}) => ENABLED EnvBind )
    /\ []( (pc \in {"finalize_port", "read_port"} /\ peer.pc = "off"
              /\ ChosenPort \in freeUdp /\ ChosenPort \in rand_ports) =>
             ENABLED (PeerChoosePort /\ peer'.port = ChosenPort) )
    /\ []( pc = "write_config" => ENABLED WriteServerConfig )
    /\ []( peer.pc = "chosen" => ENABLED PeerWriteConfig )

C27_Witness ==
    /\ cmd = "install" /\ pc = "start" /\ did["svc_start"] = 0
    /\ reqPort = None /\ did["allocate"] = 1 /\ server_port >= 0
    /\ server_port \notin freeUdp
    /\ peer.pc = "wrote" /\ peer.port = server_port
    /\ did["write_config"] = 1
    /\ ListenPort(serverConfigFile) = server_port
    /\ DOMAIN serverConfigFile.users = {gen_user(0).username}

(***************************************************************************)
(* C28.  In an install run whose requested port passed _validate_port, no  *)
(* read of the accessor allocates (no candidate is probed), the port       *)
(* install finalizes, reads back and persists is the requested one; a run  *)
(* in which the allocator ran is a run with no port requested.             *)
(***************************************************************************)
PastFinalize == {"read_port", "build_unit", "download", "write_config", "start", "status",
                 "gen_clients", "parse", "reset_shell"}

C28_RequestedPortBypassesAllocator ==
    (cmd = "install")
        => /\ (port # None =>
                 /\ port = reqPort /\ port[1] >= PortFloor
                 /\ did["allocate"] = 0
                 /\ (pc \in PastFinalize => project_port = port[1])
                 /\ (pc \in PastFinalize \ {"read_port"} => server_port = port[1])
                 /\ (did["write_config"] > 0 => ListenPort(serverConfigFile) = port[1])
                 /\ (did["write_nekoray"] > 0 => NekoRayPort(nekorayFile) = port[1]))
           /\ (did["allocate"] > 0 => (reqPort = None /\ port = None))

C28_Witness ==
    /\ cmd = "install" /\ pc = "parse" /\ reqPort = Some(59152)
    /\ server_port = 59152 /\ did["allocate"] = 0 /\ did["probe_requested"] = 1
    /\ ListenPort(serverConfigFile) = 59152
    /\ {49152, 59151} \subseteq freeUdp

(***************************************************************************)
(* C29 as stated: when install is at Service.start or has gone through it, *)
(* the domain's bundle exists, and the certificate and private-key paths   *)
(* of the persisted ServerConfig are the paths of that bundle.             *)
(***************************************************************************)
C29_BundleExistsAtStart ==
    (cmd = "install" /\ (pc = "start" \/ did["svc_start"] > 0))
        => /\ serverConfigFile # Absent
           /\ serverConfigFile.certificate = cert_fullchain(domain)
           /\ serverConfigFile.private_key = cert_privkey(domain)
           /\ domain \in fullchain
           /\ LiveDir(domain, NoSuffix) \in liveDirs

====
